---- MODULE Spec2Model ----
(***************************************************************************)
(* Consolidation of stacked spreadsheet tables: table segmentation         *)
(* (file_handler.py), column-order planning and consolidation              *)
(* (database_processor.py) and integrity validation (validator.py).        *)
(*                                                                         *)
(* Column names, file names and cell texts are TLA+ strings; their         *)
(* characters are read with SubSeq, so the regular expressions and the     *)
(* sort keys are computed character by character as the Python code does.  *)
(***************************************************************************)
EXTENDS Integers, Sequences, FiniteSets, TLC

VARIABLES
    pc,                 \* where the run is
    uploaded_files,     \* the batch: the names of the uploaded files, in order
    file_pos,           \* position in uploaded_files of the file being parsed
    sheet_names,        \* excel_file.sheet_names of the open file
    sheet_pos,          \* position in sheet_names of the sheet being read
    sheet_rows,         \* rows of that sheet the reader has produced so far
    rows_read,          \* number of rows the reader has produced in the whole run
    table_data_list,    \* the tables extracted so far
    error_log,          \* positions of the files reported by "Error processing file"
    source_manifest,    \* the manifest: a sequence of entries
    all_columns,        \* the set of discovered column names
    final_order,        \* result of the latest _build_intelligent_column_order call
    prev_order,         \* result of the call before it
    consolidated_df,    \* the unified table: [columns, rows]
    report_text,        \* the anomaly report
    planner_calls,      \* number of calls of _build_intelligent_column_order so far
    temp_db,            \* the temporary store file: "none", "exists" or "deleted"
    conn,               \* the sqlite connection: "none", "open" or "closed"
    raised,             \* the exception that left consolidate_data, or "no"
    drained,            \* number of tables consolidate_data has taken from its input
    loaded_tables,      \* number of kept tables whose rows are in the store
    store_rows,         \* the rows of the store's table consolidada
    name_a,             \* the first of two column names whose sort keys are compared
    name_b,             \* the second one
    key_order,          \* outcome of natural_sort_key(name_a) < natural_sort_key(name_b)
    validation_report,  \* result of validate_consolidation
    validation_summary  \* result of get_validation_summary

parserVars == <<uploaded_files, file_pos, sheet_names, sheet_pos, sheet_rows, rows_read,
                table_data_list, error_log>>

plannerVars == <<all_columns, final_order, prev_order>>

validatorVars == <<consolidated_df, source_manifest, validation_report, validation_summary>>

storeVars == <<planner_calls, temp_db, conn, raised>>

sortVars == <<name_a, name_b, key_order>>

\* The position of consolidate_data when it is followed step by step
passVars == <<drained, loaded_tables, store_rows>>

vars == <<pc, parserVars, plannerVars, validatorVars, report_text, storeVars, sortVars,
          passVars>>

(***************************************************************************)
(* Bounds of the model.                                                    *)
(***************************************************************************)
MaxCols == 4

MaxRows == 3

MaxTables == 2

MaxFiles == 2

MaxRowsRead == 5

(***************************************************************************)
(* Python values.                                                          *)
(***************************************************************************)
\* A cell of a DataFrame holds a str, an int, NaN (a blank cell) or None.
PyStr(text) == [kind |-> "str", v |-> text]

PyInt(n) == [kind |-> "int", v |-> n]

NaN == [kind |-> "nan"]

None == [kind |-> "None"]

\* pd.isnull(value)
IsNull(value) == value.kind \in {"nan", "None"}

\* Not yet computed
NotYet == "<not yet>"

Range(s) == {s[i] : i \in 1..Len(s)}

\* list.index(x), counted from 1
Position(seq, x) == CHOOSE i \in 1..Len(seq) : seq[i] = x

CharAt(s, i) == SubSeq(s, i, i)

\* The characters used by the model's names, in ascending code point order.
CodePointOrder == " 0123456789ABCDEFGHIJKLMNOPQRSTUVWXYZ_abcdefghijklmnopqrstuvwxyz"

\* ord(c), up to an order-preserving renumbering
OrdTable ==
    [c \in {CharAt(CodePointOrder, i) : i \in 1..Len(CodePointOrder)} |->
        CHOOSE i \in 1..Len(CodePointOrder) : CharAt(CodePointOrder, i) = c]

Ord(c) == OrdTable[c]

Digits == "0123456789"

DigitChars == {CharAt(Digits, i) : i \in 1..Len(Digits)}

\* str.isdigit on one character
IsDigitChar(c) == c \in DigitChars

DigitVal(c) == Ord(c) - Ord("0")

\* int(part) for a run of decimal digits
RECURSIVE IntOf(_)
IntOf(part) ==
    IF Len(part) = 0 THEN 0
    ELSE 10 * IntOf(SubSeq(part, 1, Len(part) - 1)) + DigitVal(CharAt(part, Len(part)))

\* str.strip(): removes leading and trailing blanks
RECURSIVE LStrip(_)
LStrip(s) ==
    IF Len(s) > 0 /\ CharAt(s, 1) = " " THEN LStrip(SubSeq(s, 2, Len(s))) ELSE s

RECURSIVE RStrip(_)
RStrip(s) ==
    IF Len(s) > 0 /\ CharAt(s, Len(s)) = " " THEN RStrip(SubSeq(s, 1, Len(s) - 1)) ELSE s

Strip(s) == RStrip(LStrip(s))

\* Python's < on two strings: lexicographic on code points, a proper prefix first
RECURSIVE StrLess(_, _)
StrLess(a, b) ==
    IF Len(b) = 0 THEN FALSE
    ELSE IF Len(a) = 0 THEN TRUE
    ELSE IF CharAt(a, 1) = CharAt(b, 1)
         THEN StrLess(SubSeq(a, 2, Len(a)), SubSeq(b, 2, Len(b)))
         ELSE Ord(CharAt(a, 1)) < Ord(CharAt(b, 1))

(***************************************************************************)
(* database_processor.py                                                   *)
(***************************************************************************)
TEMPLATE_SCHEMA == <<
    "ID Coleta", "ID Questionário", "Autor", "Data início", "Data fim", "Duração",
    "Latitude", "Longitude", "Revisão", "Sincronizacao", "Finalizada", "PIN",
    "Enviada para Webhook", "Número do WhatsApp", "ramal", "P1", "P2", "P3", "P4",
    "P5", "P6", "P7", "P7_1", "P7_2", "P7_3", "P7_4", "P7_5", "P7_6", "P7_7", "P7_8",
    "P8", "P9", "P9_2", "P9_3", "P9_4", "P9_1", "P9_5", "P9_6", "P9_7", "P9_8", "P9_9",
    "P9_10", "P10", "P10_2", "P10_3", "P10_4", "P10_1", "P10_5", "P10_6", "P10_7",
    "P10_8", "P10_9", "P10_10", "P11", "P12", "P13", "P14", "P15", "P16", "P17", "P18",
    "P19", "P20", "P21", "P22", "P23", "P24", "P25", "P26", "P27", "P28", "P29", "P30",
    "P31", "P32", "P33", "P34_1", "P34_2", "P34_3", "P34_4", "P34_5", "P34_6", "P34_7",
    "P35_2", "P35_3", "P35_4", "P35_1", "P35_5", "P35_6", "P36", "P37_2", "P37_3",
    "P37_1", "P37_4", "P37_5", "P37_6", "P38_1", "P38_2", "P38_3", "P38_4", "P38_5",
    "P38_6", "P38_7", "P39", "P40", "P41_1", "P41_2", "P41_3", "P41_4", "P41_5",
    "P41_6", "P41_7", "P41_8", "P41_9", "P41_10", "P41_11", "P42", "IDADE", "P44",
    "P45", "P46", "P47", "P48", "ID", "EMP", "FONE", "P52", "audios_urls" >>

traceability_cols ==
    <<"Nome do Arquivo de Origem", "Nome da Planilha de Origem",
      "Índice da Tabela na Planilha">>

traceability_set == Range(traceability_cols)

FILE_COL == traceability_cols[1]

SHEET_COL == traceability_cols[2]

INDEX_COL == traceability_cols[3]

\* re.match(r'^P\d+', col): a capital P followed by at least one digit
IsPColumn(col) ==
    /\ Len(col) >= 2
    /\ CharAt(col, 1) = "P"
    /\ IsDigitChar(CharAt(col, 2))

\* The length of the run of characters of one class (digit or not) that starts s.
RECURSIVE RunLen(_, _)
RunLen(s, digit) ==
    IF Len(s) > 0 /\ IsDigitChar(CharAt(s, 1)) = digit
    THEN 1 + RunLen(SubSeq(s, 2, Len(s)), digit)
    ELSE 0

\* re.split(r'(\d+)', s) without its empty parts, each digit run converted by int()
RECURSIVE SplitParts(_)
SplitParts(s) ==
    IF Len(s) = 0 THEN <<>>
    ELSE LET digit == IsDigitChar(CharAt(s, 1))
             n     == RunLen(s, digit)
             part  == SubSeq(s, 1, n)
             elem  == IF digit THEN [isint |-> TRUE, val |-> IntOf(part)]
                               ELSE [isint |-> FALSE, val |-> part]
         IN  <<elem>> \o SplitParts(SubSeq(s, n + 1, Len(s)))

natural_sort_key(column_name) == SplitParts(Strip(column_name))

\* Python's comparison of two key tuples: "lt", "eq", "gt", or "TypeError" when the
\* first differing elements are an int and a str.
RECURSIVE KeyCmp(_, _)
KeyCmp(a, b) ==
    IF Len(a) = 0 /\ Len(b) = 0 THEN "eq"
    ELSE IF Len(a) = 0 THEN "lt"
    ELSE IF Len(b) = 0 THEN "gt"
    ELSE IF Head(a) = Head(b) THEN KeyCmp(Tail(a), Tail(b))
    ELSE IF Head(a).isint /\ Head(b).isint
         THEN IF Head(a).val < Head(b).val THEN "lt" ELSE "gt"
    ELSE IF ~Head(a).isint /\ ~Head(b).isint
         THEN IF StrLess(Head(a).val, Head(b).val) THEN "lt" ELSE "gt"
    ELSE "TypeError"

NaturalLess(x, y) == KeyCmp(natural_sort_key(x), natural_sort_key(y)) = "lt"

\* A stable sort, as sorted() and list.sort() are: x goes before the first element
\* that it is strictly less than.
RECURSIVE InsertNatural(_, _)
InsertNatural(sorted, x) ==
    IF Len(sorted) = 0 THEN <<x>>
    ELSE IF NaturalLess(x, Head(sorted)) THEN <<x>> \o sorted
    ELSE <<Head(sorted)>> \o InsertNatural(Tail(sorted), x)

\* list.sort() of a list of distinct strings, given as the set of its elements
RECURSIVE SortedStrings(_)
SortedStrings(S) ==
    IF S = {} THEN <<>>
    ELSE LET least == CHOOSE x \in S : \A y \in S \ {x} : StrLess(x, y)
         IN  <<least>> \o SortedStrings(S \ {least})

\* Mutant of SortedNatural: sorted() without key=natural_sort_key.
SortedPlain(seq) == SortedStrings(Range(seq))

\* sorted(discovered_p_columns, key=natural_sort_key)
RECURSIVE SortedNatural(_)
SortedNatural(seq) ==
    IF Len(seq) = 0 THEN <<>>
    ELSE InsertNatural(SortedNatural(SubSeq(seq, 1, Len(seq) - 1)), seq[Len(seq)])

\* The orders in which Python may enumerate a set: every sequence without
\* repetition of its elements (the order follows the strings' hashes, which differ
\* from one process to the next, and the set's history).
RECURSIVE SetIterations(_)
SetIterations(S) ==
    IF S = {} THEN {<<>>}
    ELSE UNION {{<<x>> \o rest : rest \in SetIterations(S \ {x})} : x \in S}

\* Mutant of TraceabilityFirst: the provenance columns in the reverse order.
TraceabilityReversed(columns) ==
    SelectSeq(<<traceability_cols[3], traceability_cols[2], traceability_cols[1]>>,
              LAMBDA col : col \in columns)

\* Step 1: the provenance columns that are present, in their fixed order
TraceabilityFirst(columns) == SelectSeq(traceability_cols, LAMBDA col : col \in columns)

\* Mutant of TemplateStep: the loop never splices the P# columns in, so that step
\* 4 appends them after the template's columns.
TemplateStepNeverSplices(i, columns, p_columns_sorted, st) ==
    LET col == TEMPLATE_SCHEMA[i] IN
    IF ~IsPColumn(col) /\ col \in columns /\ col \notin traceability_set
    THEN [st EXCEPT !.base_schema = Append(@, col)]
    ELSE st

\* One iteration of the loop of step 3, on TEMPLATE_SCHEMA[i]; st holds base_schema
\* and p_inserted as the iterations before it have left them.
TemplateStep(i, columns, p_columns_sorted, st) ==
    LET col == TEMPLATE_SCHEMA[i] IN
    IF ~IsPColumn(col) /\ col \in columns /\ col \notin traceability_set
    THEN [st EXCEPT !.base_schema = Append(@, col)]
    ELSE IF IsPColumn(col) /\ ~st.p_inserted /\ p_columns_sorted # <<>>
    THEN [base_schema |-> st.base_schema \o p_columns_sorted, p_inserted |-> TRUE]
    ELSE st

\* The iterations lo..hi of the loop of step 3, in order (the range is halved so
\* that the evaluation stays shallow).
RECURSIVE WalkTemplate(_, _, _, _, _)
WalkTemplate(lo, hi, columns, p_columns_sorted, st) ==
    IF lo > hi THEN st
    ELSE IF lo = hi THEN TemplateStep(lo, columns, p_columns_sorted, st)
    ELSE LET mid  == (lo + hi) \div 2
             left == WalkTemplate(lo, mid, columns, p_columns_sorted, st)
         IN  \* the first half is evaluated before the second half starts
             CASE left.p_inserted \in BOOLEAN ->
                  WalkTemplate(mid + 1, hi, columns, p_columns_sorted, left)

\* Steps 3 and 4: the template's non-P# columns that are present, in template
\* order, with the sorted P# columns at the template's first P# entry (or at the
\* end when the loop has not inserted them).
BaseSchema(columns, p_columns_sorted) ==
    LET st == WalkTemplate(1, Len(TEMPLATE_SCHEMA), columns, p_columns_sorted,
                           [base_schema |-> <<>>, p_inserted |-> FALSE])
    IN  IF ~st.p_inserted /\ p_columns_sorted # <<>>
        THEN st.base_schema \o p_columns_sorted
        ELSE st.base_schema

all_known_columns == traceability_set \cup Range(TEMPLATE_SCHEMA)

\* Mutant of UnexpectedColumns: the unexpected columns sorted, but put in
\* descending order.
UnexpectedDescending(columns) ==
    LET up == SortedStrings(columns \ all_known_columns)
    IN  [i \in 1..Len(up) |-> up[Len(up) + 1 - i]]

\* Steps 6 and 7: the columns outside the template and the provenance columns,
\* sorted as strings
UnexpectedColumns(columns) == SortedStrings(columns \ all_known_columns)

\* Mutant of RemoveDuplicates: step 8 left out.
KeepDuplicates(seq) == seq

\* Step 8: drop every repetition, keeping first occurrences
RECURSIVE RemoveDuplicates(_)
RemoveDuplicates(seq) ==
    IF Len(seq) = 0 THEN <<>>
    ELSE LET init == SubSeq(seq, 1, Len(seq) - 1)
             last == seq[Len(seq)]
         IN  IF last \in Range(init) THEN RemoveDuplicates(init)
             ELSE Append(RemoveDuplicates(init), last)

\* _build_intelligent_column_order(all_columns).  discovered_p_columns is the list
\* the comprehension of step 2 builds: the P# columns in the order in which the
\* set all_columns happens to be enumerated.
build_intelligent_column_order(columns, discovered_p_columns) ==
    LET p_columns_sorted == SortedNatural(discovered_p_columns)
        base_schema == BaseSchema(columns, p_columns_sorted)
    IN  RemoveDuplicates(TraceabilityFirst(columns) \o base_schema
                         \o UnexpectedColumns(columns))

(***************************************************************************)
(* The planner on its own: column names are discovered one by one, then    *)
(* _build_intelligent_column_order is called on the set, and called again. *)
(***************************************************************************)
ColumnUniverse ==
    { "Nome do Arquivo de Origem", "Nome da Planilha de Origem",
      "Índice da Tabela na Planilha",
      "ID Coleta", "Autor", "IDADE", "FONE",
      "P1", "P01", "P2", "P10", "P9_1", "P9_2", "P9_10",
      "Nova_A", "Nova_Z" }

\* No batch is being parsed
ParserIdle ==
    /\ uploaded_files = <<>>
    /\ file_pos = 0
    /\ sheet_names = <<>>
    /\ sheet_pos = 0
    /\ sheet_rows = <<>>
    /\ rows_read = 0
    /\ table_data_list = <<>>
    /\ error_log = <<>>

\* consolidate_data has not been called
StoreIdle ==
    /\ planner_calls = 0
    /\ temp_db = "none"
    /\ conn = "none"
    /\ raised = "no"

\* No pair of sort keys is being compared
SortIdle ==
    /\ name_a = ""
    /\ name_b = ""
    /\ key_order = NotYet

\* consolidate_data is not being followed step by step
PassIdle ==
    /\ drained = 0
    /\ loaded_tables = 0
    /\ store_rows = <<>>

InitPlanner ==
    /\ pc = "discover"
    /\ all_columns = {}
    /\ final_order = <<>>
    /\ prev_order = <<>>
    /\ consolidated_df = NotYet
    /\ source_manifest = <<>>
    /\ validation_report = NotYet
    /\ validation_summary = NotYet
    /\ report_text = NotYet
    /\ ParserIdle
    /\ StoreIdle
    /\ SortIdle
    /\ PassIdle

Discover(col) ==
    /\ pc = "discover"
    /\ Cardinality(all_columns) < MaxCols
    /\ col \notin all_columns
    /\ all_columns' = all_columns \cup {col}
    /\ UNCHANGED <<passVars, sortVars, pc, final_order, prev_order, validatorVars, parserVars, report_text,
                   storeVars>>

\* One call of _build_intelligent_column_order(all_columns)
PlanCall ==
    /\ pc \in {"discover", "planned"}
    /\ \E discovered_p_columns \in SetIterations({col \in all_columns : IsPColumn(col)}) :
           final_order' = build_intelligent_column_order(all_columns, discovered_p_columns)
    /\ prev_order' = final_order
    /\ pc' = IF pc = "discover" THEN "planned" ELSE "replanned"
    /\ planner_calls' = planner_calls + 1
    /\ UNCHANGED <<passVars, sortVars, all_columns, validatorVars, parserVars, report_text, temp_db, conn, raised>>

NextPlanner ==
    \/ \E col \in ColumnUniverse : Discover(col)
    \/ PlanCall

SpecPlanner == InitPlanner /\ [][NextPlanner]_vars

\* str(n) for an int n >= 0
RECURSIVE IntToStr(_)
IntToStr(n) ==
    IF n < 10 THEN CharAt(Digits, n + 1)
    ELSE IntToStr(n \div 10) \o CharAt(Digits, (n % 10) + 1)

\* str(value), as Series.astype(str) applies it to each cell
AsStr(value) ==
    CASE value.kind = "str"  -> value.v
      [] value.kind = "int"  -> IntToStr(value.v)
      [] value.kind = "nan"  -> "nan"
      [] value.kind = "None" -> "None"

(***************************************************************************)
(* file_handler.py                                                         *)
(*                                                                         *)
(* A sheet grid (read with header=None) is a sequence of rows, a row a     *)
(* sequence of cells.  An extracted table is [columns |-> sequence of      *)
(* names, rows |-> sequence of rows], the cells of a row in column order.  *)
(***************************************************************************)
\* df_sheet.isnull().all(axis=1), for one row
IsBlankRow(row) == \A j \in 1..Len(row) : IsNull(row[j])

\* table_data.empty: no rows or no columns
IsEmptyTable(table) == Len(table.rows) = 0 \/ Len(table.columns) = 0

\* dropna(how='all', axis=0) then dropna(how='all', axis=1) on the rows of a
\* slice; the columns still carry the integer labels of the sheet (as text).
CleanSlice(rows) ==
    LET kept_rows == SelectSeq(rows, LAMBDA row : ~IsBlankRow(row))
        width     == IF Len(rows) = 0 THEN 0 ELSE Len(rows[1])
        kept_cols == SelectSeq([j \in 1..width |-> j],
                         LAMBDA j : \E i \in 1..Len(kept_rows) : ~IsNull(kept_rows[i][j]))
    IN  [columns |-> [k \in 1..Len(kept_cols) |-> IntToStr(kept_cols[k] - 1)],
         rows    |-> [i \in 1..Len(kept_rows) |->
                         [k \in 1..Len(kept_cols) |-> kept_rows[i][kept_cols[k]]]]]

\* Mutant of PromoteHeader: data_row_count is not updated after the header row is
\* removed.
PromoteHeaderStaleCount(table) ==
    IF ~IsEmptyTable(table) /\ ~IsBlankRow(table.rows[1])
    THEN LET names == [k \in 1..Len(table.columns) |-> AsStr(table.rows[1][k])]
         IN  [columns |-> [k \in 1..Len(names) |->
                              IF names[k] # "nan" THEN names[k]
                              ELSE "Column_" \o IntToStr(k - 1)],
              rows |-> Tail(table.rows),
              data_row_count |-> Len(table.rows)]
    ELSE [columns |-> table.columns, rows |-> table.rows,
          data_row_count |-> Len(table.rows)]

\* Lines 72-86: the first row becomes the header when it has a non-null cell; a
\* blank header cell is named Column_<i>; data_row_count is the number of rows
\* that remain.
PromoteHeader(table) ==
    IF ~IsEmptyTable(table) /\ ~IsBlankRow(table.rows[1])
    THEN LET names == [k \in 1..Len(table.columns) |-> AsStr(table.rows[1][k])]
         IN  [columns |-> [k \in 1..Len(names) |->
                              IF names[k] # "nan" THEN names[k]
                              ELSE "Column_" \o IntToStr(k - 1)],
              rows |-> Tail(table.rows),
              data_row_count |-> Len(table.rows) - 1]
    ELSE [columns |-> table.columns, rows |-> table.rows,
          data_row_count |-> Len(table.rows)]

\* Mutant of WithTraceability: the table index column gets the index of the next
\* table.
WithTraceabilityNextIndex(table, file_name, sheet_name, table_index) ==
    [columns |-> traceability_cols \o table.columns,
     rows    |-> [i \in 1..Len(table.rows) |->
                     <<PyStr(file_name), PyStr(sheet_name), PyInt(table_index + 1)>>
                     \o table.rows[i]]]

\* Lines 91-93: the three provenance columns inserted in front
WithTraceability(table, file_name, sheet_name, table_index) ==
    [columns |-> traceability_cols \o table.columns,
     rows    |-> [i \in 1..Len(table.rows) |->
                     <<PyStr(file_name), PyStr(sheet_name), PyInt(table_index)>>
                     \o table.rows[i]]]

\* Mutant of EmptyRowIndices: no blank row is found, the sheet is one slice.
EmptyRowIndicesNone(df_sheet) == <<>>

\* The 0-based indices of the blank rows of the sheet, ascending
EmptyRowIndices(df_sheet) ==
    LET blank == SelectSeq([i \in 1..Len(df_sheet) |-> i],
                           LAMBDA i : IsBlankRow(df_sheet[i]))
    IN  [k \in 1..Len(blank) |-> blank[k] - 1]

\* Mutant of Emit: table_index is not advanced after a table is emitted.
EmitKeepsIndex(st, table, file_name, sheet_name, data_row_count) ==
    [table_index |-> st.table_index,
     tables   |-> Append(st.tables,
                      WithTraceability(table, file_name, sheet_name, st.table_index)),
     manifest |-> Append(st.manifest,
                      [file_name   |-> file_name,
                       sheet_name  |-> sheet_name,
                       table_index |-> st.table_index,
                       row_count   |-> data_row_count]),
     raised   |-> FALSE]

\* Lines 89-105: the table gets its provenance columns and is appended with its
\* manifest entry; table_index += 1.
Emit(st, table, file_name, sheet_name, data_row_count) ==
    [table_index |-> st.table_index + 1,
     tables   |-> Append(st.tables,
                      WithTraceability(table, file_name, sheet_name, st.table_index)),
     manifest |-> Append(st.manifest,
                      [file_name   |-> file_name,
                       sheet_name  |-> sheet_name,
                       table_index |-> st.table_index,
                       row_count   |-> data_row_count]),
     raised   |-> FALSE]

\* Lines 49-105: the iterations i, i+1, ... of the loop over the boundaries (i is
\* counted from 1 here); st holds table_index, the tables and manifest entries
\* appended so far, and whether DataFrame.insert has raised.
RECURSIVE ExtractTables(_, _, _, _, _, _)
ExtractTables(i, df_sheet, boundaries, file_name, sheet_name, st) ==
    IF i > Len(boundaries) - 1 \/ st.raised THEN st
    ELSE
    LET empty_row_indices == Range(EmptyRowIndices(df_sheet))
        start_idx == IF boundaries[i] \in empty_row_indices
                     THEN boundaries[i] + 1 ELSE boundaries[i]
        end_idx   == boundaries[i + 1]
        cleaned   == CleanSlice(SubSeq(df_sheet, start_idx + 1, end_idx))
        promoted  == PromoteHeader(cleaned)
        table     == [columns |-> promoted.columns, rows |-> promoted.rows]
        next_st   ==
            IF ~(start_idx < end_idx) THEN st
            ELSE IF IsEmptyTable(cleaned) THEN st
            ELSE IF IsEmptyTable(table) THEN st
            ELSE IF \E col \in traceability_set : col \in Range(table.columns)
                 THEN [st EXCEPT !.raised = TRUE]
            ELSE Emit(st, table, file_name, sheet_name, promoted.data_row_count)
    IN  ExtractTables(i + 1, df_sheet, boundaries, file_name, sheet_name, next_st)

\* Mutant of SegmentSheet: the sheet is not split at its blank rows and no row is
\* dropped; a sheet with a row is one table.
SegmentSheetWholeSheet(df_sheet, file_name, sheet_name) ==
    LET st0 == [table_index |-> 1, tables |-> <<>>, manifest |-> <<>>, raised |-> FALSE]
        table == [columns |-> [k \in 1..Len(df_sheet[1]) |-> IntToStr(k - 1)],
                  rows    |-> df_sheet]
    IN  IF Len(df_sheet) = 0 THEN st0
        ELSE Emit(st0, table, file_name, sheet_name, Len(df_sheet))

\* Lines 34-105 for one sheet: the tables and manifest entries it adds, and
\* whether an exception left the loop.
SegmentSheet(df_sheet, file_name, sheet_name) ==
    LET boundaries == <<0>> \o EmptyRowIndices(df_sheet) \o <<Len(df_sheet)>>
        st0 == [table_index |-> 1, tables |-> <<>>, manifest |-> <<>>, raised |-> FALSE]
    IN  IF Len(df_sheet) = 0 THEN st0
        ELSE ExtractTables(1, df_sheet, boundaries, file_name, sheet_name, st0)

(***************************************************************************)
(* database_processor.py: consolidate_data                                 *)
(***************************************************************************)
\* Mutant of StripColumns: the column names are kept as they are.
StripColumnsKeepsBlanks(df) == df

\* df.columns = [str(col).strip() for col in df.columns]
StripColumns(df) == [df EXCEPT !.columns = [k \in 1..Len(@) |-> Strip(@[k])]]

\* Mutant of RetainedTables: the empty tables are kept too.
RetainedTablesKeepsEmpty(dataframes) ==
    [k \in 1..Len(dataframes) |->
        [idx     |-> k - 1,
         columns |-> StripColumns(dataframes[k]).columns,
         rows    |-> dataframes[k].rows]]

\* Phase 1: dataframes_list, the (idx, df) pairs of the tables that are kept (the
\* non-empty ones), idx counted from 0 over all the tables of the input, the
\* column names stripped
RetainedTables(dataframes) ==
    LET kept == SelectSeq([k \in 1..Len(dataframes) |-> k],
                          LAMBDA k : ~IsEmptyTable(dataframes[k]))
    IN  [j \in 1..Len(kept) |->
            [idx     |-> kept[j] - 1,
             columns |-> StripColumns(dataframes[kept[j]]).columns,
             rows    |-> dataframes[kept[j]].rows]]

\* The union of the column names of the kept tables
DiscoveredColumns(dataframes_list) ==
    UNION {Range(dataframes_list[k].columns) : k \in 1..Len(dataframes_list)}

\* Mutant of StoredCell: the text 'nan' is stored as it is.
StoredCellKeepsNan(value) == PyStr(AsStr(value))

\* df[col].astype(str).replace('nan', None), for one cell
StoredCell(value) == IF AsStr(value) = "nan" THEN None ELSE PyStr(AsStr(value))

UpperCase == "ABCDEFGHIJKLMNOPQRSTUVWXYZ"

LowerCase == "abcdefghijklmnopqrstuvwxyz"

\* The ASCII lower-case form of a character, as sqlite folds identifiers
LowerChar(c) ==
    IF \E i \in 1..Len(UpperCase) : CharAt(UpperCase, i) = c
    THEN CharAt(LowerCase, CHOOSE i \in 1..Len(UpperCase) : CharAt(UpperCase, i) = c)
    ELSE c

\* Two column names that sqlite takes for the same identifier
SameSqlName(a, b) ==
    /\ Len(a) = Len(b)
    /\ \A i \in 1..Len(a) : LowerChar(CharAt(a, i)) = LowerChar(CharAt(b, i))

\* CREATE TABLE consolidada (...) raises sqlite3.OperationalError (duplicate
\* column name) when two target columns differ only in the case of their letters.
CreateRaises(master_columns) ==
    \E i, j \in 1..Len(master_columns) :
        i # j /\ SameSqlName(master_columns[i], master_columns[j])

\* aligned_df[col] = <a DataFrame with several columns> raises ValueError: a
\* table with a repeated column name cannot be aligned.
AlignRaises(df) == Cardinality(Range(df.columns)) < Len(df.columns)

\* Lines 219-226: the rows of one table in the target schema, as stored and read
\* back: a row is a function from the target columns to text or None.
AlignedRows(df, master_columns) ==
    [i \in 1..Len(df.rows) |->
        [col \in Range(master_columns) |->
            IF col \in Range(df.columns)
            THEN StoredCell(df.rows[i][Position(df.columns, col)])
            ELSE None]]

\* Mutant of AnomalyLines: a line is appended for every table, also when the list
\* of its missing columns is empty.
AnomalyLinesAlways(table_idx, df, master_columns) ==
    LET missing_cols_list ==
            SortedStrings((Range(master_columns) \ Range(df.columns)) \ traceability_set)
        first(col, default) ==
            IF col \in Range(df.columns)
            THEN AsStr(df.rows[1][Position(df.columns, col)]) ELSE default
    IN  << [file    |-> first(FILE_COL, "Unknown"),
            sheet   |-> first(SHEET_COL, "Unknown"),
            table   |-> first(INDEX_COL, IntToStr(table_idx + 1)),
            missing |-> missing_cols_list] >>

\* Lines 205-217: the anomaly line of one table (table_idx its position in the
\* input, counted from 0), or no line
AnomalyLines(table_idx, df, master_columns) ==
    LET missing_cols_list ==
            SortedStrings((Range(master_columns) \ Range(df.columns)) \ traceability_set)
        first(col, default) ==
            IF col \in Range(df.columns)
            THEN AsStr(df.rows[1][Position(df.columns, col)]) ELSE default
    IN  IF missing_cols_list = <<>> THEN <<>>
        ELSE << [file    |-> first(FILE_COL, "Unknown"),
                 sheet   |-> first(SHEET_COL, "Unknown"),
                 table   |-> first(INDEX_COL, IntToStr(table_idx + 1)),
                 missing |-> missing_cols_list] >>

\* Mutant of LoadTables: each table's rows are put in front of the rows loaded
\* before.
RECURSIVE LoadTablesInFront(_, _, _)
LoadTablesInFront(k, dataframes_list, master_columns) ==
    IF k > Len(dataframes_list) THEN [rows |-> <<>>, anomaly_reports |-> <<>>]
    ELSE LET rest == LoadTablesInFront(k + 1, dataframes_list, master_columns)
         IN  [rows |-> rest.rows \o AlignedRows(dataframes_list[k], master_columns),
              anomaly_reports |->
                  AnomalyLines(dataframes_list[k].idx, dataframes_list[k], master_columns)
                  \o rest.anomaly_reports]

\* Phase 3 on the tables k, k+1, ...: the rows loaded and the anomaly lines
RECURSIVE LoadTables(_, _, _)
LoadTables(k, dataframes_list, master_columns) ==
    IF k > Len(dataframes_list) THEN [rows |-> <<>>, anomaly_reports |-> <<>>]
    ELSE LET rest == LoadTables(k + 1, dataframes_list, master_columns)
         IN  [rows |-> AlignedRows(dataframes_list[k], master_columns) \o rest.rows,
              anomaly_reports |->
                  AnomalyLines(dataframes_list[k].idx, dataframes_list[k], master_columns)
                  \o rest.anomaly_reports]

\* Line 178: the report returned when no table has data
NoDataReport == [kind |-> "text", v |-> "No data found in any tables"]

\* Line 236: the anomaly lines joined by newlines (kept as the sequence of the
\* lines, a line being its file, sheet, table and list of missing columns), or
\* the text that says there is none
ReportText(anomaly_reports) ==
    IF anomaly_reports = <<>>
    THEN [kind |-> "text", v |-> "Nenhuma anomalia detectada."]
    ELSE [kind |-> "lines", v |-> anomaly_reports]

(***************************************************************************)
(* validator.py                                                            *)
(*                                                                         *)
(* A DataFrame is [columns |-> sequence of names, rows |-> sequence of     *)
(* rows], a row being a function from the column names to cell values.     *)
(* A manifest entry is [file_name, sheet_name, table_index, row_count].    *)
(***************************************************************************)

HasColumn(df, col) == col \in Range(df.columns)

\* Whether int(value) returns, as Series.astype(int) applies it to each cell: an
\* int, or a str that is a run of decimal digits (None raises TypeError; NaN and
\* any other text raise ValueError).
IntParses(value) ==
    \/ value.kind = "int"
    \/ /\ value.kind = "str"
       /\ Len(value.v) > 0
       /\ \A i \in 1..Len(value.v) : IsDigitChar(CharAt(value.v, i))

\* int(value), for a cell that int() accepts
AsInt(value) == IF value.kind = "int" THEN value.v ELSE IntOf(value.v)

\* sum(table['row_count'] for table in source_manifest)
RECURSIVE SumRowCounts(_)
SumRowCounts(manifest) ==
    IF Len(manifest) = 0 THEN 0
    ELSE manifest[1].row_count + SumRowCounts(Tail(manifest))

Abs(n) == IF n < 0 THEN -n ELSE n

\* The exception the type corrections and the per-table loop raise, or "no".
\* astype(int) on the table-index column comes first and stops at the first cell
\* that int() rejects; then comes the first consolidated_df[<provenance column>]
\* of the loop.
ValidatorException(df, manifest) ==
    LET bad == IF HasColumn(df, INDEX_COL)
               THEN {i \in 1..Len(df.rows) : ~IntParses(df.rows[i][INDEX_COL])}
               ELSE {}
        first == CHOOSE i \in bad : \A j \in bad : i <= j
    IN  IF bad # {}
        THEN IF df.rows[first][INDEX_COL] = None THEN "TypeError" ELSE "ValueError"
        ELSE IF Len(manifest) > 0 /\ \E col \in traceability_set : ~HasColumn(df, col)
        THEN "KeyError"
        ELSE "no"

\* mask.sum(): the rows whose three provenance values, after the type
\* corrections, equal the entry's
ActualRows(df, table_info) ==
    Cardinality({i \in 1..Len(df.rows) :
        /\ AsStr(df.rows[i][FILE_COL]) = table_info.file_name
        /\ AsStr(df.rows[i][SHEET_COL]) = table_info.sheet_name
        /\ AsInt(df.rows[i][INDEX_COL]) = table_info.table_index})

\* The validation_errors list: one error per manifest entry whose count differs
ValidationErrors(df, manifest) ==
    LET wrong == SelectSeq(manifest,
                     LAMBDA table_info : table_info.row_count # ActualRows(df, table_info))
    IN  [k \in 1..Len(wrong) |->
            [file       |-> wrong[k].file_name,
             sheet      |-> wrong[k].sheet_name,
             table      |-> wrong[k].table_index,
             expected   |-> wrong[k].row_count,
             actual     |-> ActualRows(df, wrong[k]),
             difference |-> Abs(wrong[k].row_count - ActualRows(df, wrong[k]))]]

\* Mutant of OverallSuccess: the verdict taken from the totals alone.
OverallSuccessTotalsOnly(totals_match, has_validation_errors) == totals_match

\* overall_success = totals_match and not has_validation_errors
OverallSuccess(totals_match, has_validation_errors) ==
    totals_match /\ ~has_validation_errors

\* validate_consolidation: the report (its verdict line, its totals, its per-table
\* lines and its error details), or the exception raised.
validate_consolidation(df, manifest) ==
    LET total_source_rows == SumRowCounts(manifest)
        total_consolidated_rows == Len(df.rows)
        totals_match == total_source_rows = total_consolidated_rows
        exception == ValidatorException(df, manifest)
        validation_errors == ValidationErrors(df, manifest)
        overall_success == OverallSuccess(totals_match, Len(validation_errors) > 0)
    IN  IF exception # "no" THEN [raised |-> exception]
        ELSE [raised |-> "no",
              result |-> IF overall_success THEN "SUCESSO" ELSE "FALHA",
              total_source_rows |-> total_source_rows,
              total_consolidated_rows |-> total_consolidated_rows,
              difference |-> Abs(total_source_rows - total_consolidated_rows),
              table_lines |->
                  [k \in 1..Len(manifest) |->
                      [status |-> IF manifest[k].row_count = ActualRows(df, manifest[k])
                                  THEN "OK" ELSE "ERRO",
                       file |-> manifest[k].file_name,
                       sheet |-> manifest[k].sheet_name,
                       table |-> manifest[k].table_index,
                       actual |-> ActualRows(df, manifest[k]),
                       expected |-> manifest[k].row_count]],
              errors |-> validation_errors]

\* Mutant of get_validation_summary: is_valid is taken from the totals alone.
GetValidationSummaryTotalsOnly(df, manifest) ==
    LET total_source_rows == SumRowCounts(manifest)
        total_consolidated_rows == Len(df.rows)
        totals_match == total_source_rows = total_consolidated_rows
        exception == ValidatorException(df, manifest)
        validation_errors == Len(ValidationErrors(df, manifest))
    IN  IF exception # "no" THEN [raised |-> exception]
        ELSE [raised |-> "no",
              is_valid |-> totals_match,
              total_source_rows |-> total_source_rows,
              total_consolidated_rows |-> total_consolidated_rows,
              difference |-> Abs(total_source_rows - total_consolidated_rows),
              total_tables |-> Len(manifest),
              validation_errors |-> validation_errors,
              totals_match |-> totals_match]

\* get_validation_summary: the summary dict, or the exception raised.
get_validation_summary(df, manifest) ==
    LET total_source_rows == SumRowCounts(manifest)
        total_consolidated_rows == Len(df.rows)
        totals_match == total_source_rows = total_consolidated_rows
        exception == ValidatorException(df, manifest)
        validation_errors == Len(ValidationErrors(df, manifest))
    IN  IF exception # "no" THEN [raised |-> exception]
        ELSE [raised |-> "no",
              is_valid |-> totals_match /\ validation_errors = 0,
              total_source_rows |-> total_source_rows,
              total_consolidated_rows |-> total_consolidated_rows,
              difference |-> Abs(total_source_rows - total_consolidated_rows),
              total_tables |-> Len(manifest),
              validation_errors |-> validation_errors,
              totals_match |-> totals_match]

\* validate_consolidation(consolidated_df, source_manifest)
Validate ==
    /\ pc = "consolidated"
    /\ validation_report' = validate_consolidation(consolidated_df, source_manifest)
    /\ pc' = "validated"
    /\ UNCHANGED <<passVars, sortVars, parserVars, plannerVars, storeVars, report_text, consolidated_df, source_manifest,
                   validation_summary>>

\* get_validation_summary(consolidated_df, source_manifest)
Summarize ==
    /\ pc = "validated"
    /\ validation_summary' = get_validation_summary(consolidated_df, source_manifest)
    /\ pc' = "summarized"
    /\ UNCHANGED <<passVars, sortVars, parserVars, plannerVars, storeVars, report_text, consolidated_df, source_manifest,
                   validation_report>>

(***************************************************************************)
(* The validator on its own: any unified table and any manifest are built  *)
(* row by row and entry by entry, then the two entry points are called.    *)
(***************************************************************************)
FileNames == {"a.xlsx", "b.xlsx"}

\* The sheet names of a workbook, in workbook order; a workbook holds the first
\* one or the first two.
SheetNames == <<"S1", "S2">>

\* The column lists of the unified tables handed to the validator: with the
\* three provenance columns, without the table index, and pd.DataFrame().
ValidatorColumnLists ==
    { traceability_cols, <<FILE_COL, SHEET_COL>>, <<>> }

\* The provenance cells of a unified row: texts as read back from the store, or None
ValidatorRows ==
    { <<PyStr("a.xlsx"), PyStr("S1"), PyStr("1")>>,
      <<PyStr("b.xlsx"), PyStr("S1"), PyStr("1")>>,
      <<PyStr("a.xlsx"), PyStr("S1"), PyStr("2")>>,
      <<PyStr("a.xlsx"), PyStr("S1"), None>>,
      <<PyStr("a.xlsx"), PyStr("S1"), PyStr("x")>> }

ValidatorEntries ==
    [file_name : FileNames, sheet_name : {"S1"}, table_index : {1}, row_count : {1, 2}]

InitValidator ==
    /\ pc = "consolidated"
    /\ \E columns \in ValidatorColumnLists :
           consolidated_df = [columns |-> columns, rows |-> <<>>]
    /\ source_manifest = <<>>
    /\ validation_report = NotYet
    /\ validation_summary = NotYet
    /\ all_columns = {}
    /\ final_order = <<>>
    /\ prev_order = <<>>
    /\ report_text = NotYet
    /\ ParserIdle
    /\ StoreIdle
    /\ SortIdle
    /\ PassIdle

AddRow(cells) ==
    /\ pc = "consolidated"
    /\ Len(consolidated_df.rows) < MaxRows
    /\ LET columns == consolidated_df.columns
           row == [col \in Range(columns) |-> cells[Position(traceability_cols, col)]]
       IN  consolidated_df' = [consolidated_df EXCEPT !.rows = Append(@, row)]
    /\ UNCHANGED <<passVars, sortVars, pc, parserVars, plannerVars, storeVars, report_text, source_manifest,
                   validation_report, validation_summary>>

AddEntry(table_info) ==
    /\ pc = "consolidated"
    /\ Len(source_manifest) < MaxTables
    /\ source_manifest' = Append(source_manifest, table_info)
    /\ UNCHANGED <<passVars, sortVars, pc, parserVars, plannerVars, storeVars, report_text, consolidated_df,
                   validation_report, validation_summary>>

NextValidator ==
    \/ \E cells \in ValidatorRows : AddRow(cells)
    \/ \E table_info \in ValidatorEntries : AddEntry(table_info)
    \/ Validate
    \/ Summarize

SpecValidator == InitValidator /\ [][NextValidator]_vars

(***************************************************************************)
(* The whole pipeline: a batch of uploaded files is parsed sheet by sheet,  *)
(* the extracted tables are consolidated, and the unified table is          *)
(* validated against the manifest of the same run.                          *)
(***************************************************************************)
\* The rows a sheet can hold (two cells wide): a blank row, a header row, a data
\* row with a missing cell, and a header row that repeats a name.
SheetRowUniverse ==
    { <<NaN, NaN>>,
      <<PyStr("Nome"), PyStr("P1")>>,
      <<PyStr("x"), NaN>>,
      <<PyStr("Nome"), PyStr("Nome")>> }

\* The rows of the sheets given to the segmenter alone: a blank row, a header
\* row, and a row whose first cell names a provenance column.
SegmenterRowUniverse ==
    { <<NaN, NaN>>,
      <<PyStr("Nome"), PyStr("P1")>>,
      <<PyStr(FILE_COL), NaN>> }

\* The batches of at most MaxFiles files; two files of a batch may have the same
\* name.  The first file is a.xlsx (the names are interchangeable).
Batches ==
    { batch \in UNION { [1..n -> FileNames] : n \in 1..MaxFiles } : batch[1] = "a.xlsx" }

Init ==
    /\ pc = "open_file"
    /\ uploaded_files \in Batches
    /\ file_pos = 1
    /\ sheet_names = <<>>
    /\ sheet_pos = 0
    /\ sheet_rows = <<>>
    /\ rows_read = 0
    /\ table_data_list = <<>>
    /\ error_log = <<>>
    /\ StoreIdle
    /\ SortIdle
    /\ PassIdle
    /\ source_manifest = <<>>
    /\ all_columns = {}
    /\ final_order = <<>>
    /\ prev_order = <<>>
    /\ consolidated_df = NotYet
    /\ report_text = NotYet
    /\ validation_report = NotYet
    /\ validation_summary = NotYet

\* The for loop over uploaded_files moves on: to the next file, or out of the loop
NextFile ==
    /\ sheet_names' = <<>>
    /\ sheet_pos' = 0
    /\ sheet_rows' = <<>>
    /\ IF file_pos < Len(uploaded_files)
       THEN file_pos' = file_pos + 1 /\ pc' = "open_file"
       ELSE file_pos' = file_pos /\ pc' = "parsed"

\* pd.ExcelFile(uploaded_file) returns a workbook with n sheets
OpenFile(n) ==
    /\ pc = "open_file"
    /\ sheet_names' = SubSeq(SheetNames, 1, n)
    /\ sheet_pos' = 1
    /\ sheet_rows' = <<>>
    /\ pc' = "read_sheet"
    /\ UNCHANGED <<passVars, sortVars, uploaded_files, file_pos, rows_read, table_data_list, error_log,
                   plannerVars, validatorVars, report_text, storeVars>>

\* pd.ExcelFile(uploaded_file) raises: the file is skipped
OpenFails ==
    /\ pc = "open_file"
    /\ NextFile
    /\ error_log' = Append(error_log, file_pos)
    /\ UNCHANGED <<passVars, sortVars, uploaded_files, rows_read, table_data_list,
                   plannerVars, validatorVars, report_text, storeVars>>

\* pd.read_excel(..., header=None) delivers one more row of the current sheet
ReadRow(row) ==
    /\ pc = "read_sheet"
    /\ rows_read < MaxRowsRead
    /\ sheet_rows' = Append(sheet_rows, row)
    /\ rows_read' = rows_read + 1
    /\ UNCHANGED <<passVars, sortVars, pc, uploaded_files, file_pos, sheet_names, sheet_pos, table_data_list,
                   error_log, plannerVars, validatorVars, report_text, storeVars>>

\* pd.read_excel raises on the current sheet: the rest of the file is skipped
ReadFails ==
    /\ pc = "read_sheet"
    /\ sheet_rows = <<>>
    /\ NextFile
    /\ error_log' = Append(error_log, file_pos)
    /\ UNCHANGED <<passVars, sortVars, uploaded_files, rows_read, table_data_list,
                   plannerVars, validatorVars, report_text, storeVars>>

\* Lines 34-105 for the sheet just read; an exception ends the file, the end of
\* the last sheet ends it too.
ProcessSheet ==
    /\ pc = "read_sheet"
    /\ LET seg == SegmentSheet(sheet_rows, uploaded_files[file_pos], sheet_names[sheet_pos])
       IN  /\ table_data_list' = table_data_list \o seg.tables
           /\ source_manifest' = source_manifest \o seg.manifest
           /\ error_log' = IF seg.raised THEN Append(error_log, file_pos) ELSE error_log
           /\ IF seg.raised \/ sheet_pos = Len(sheet_names)
              THEN NextFile
              ELSE /\ sheet_pos' = sheet_pos + 1
                   /\ sheet_rows' = <<>>
                   /\ UNCHANGED <<pc, file_pos, sheet_names>>
    /\ UNCHANGED <<passVars, sortVars, uploaded_files, rows_read, plannerVars, report_text, storeVars,
                   consolidated_df, validation_report, validation_summary>>

\* consolidate_data(table_generator()) on the tables of the batch: it returns the
\* unified table and the report, or an exception leaves it.  The store is created
\* after the planner has run; the finally clause closes and deletes it.
Consolidate ==
    /\ pc = "parsed"
    /\ LET dataframes_list == RetainedTables(table_data_list)
           columns == DiscoveredColumns(dataframes_list)
       IN  IF columns = {}
           THEN /\ consolidated_df' = [columns |-> <<>>, rows |-> <<>>]
                /\ report_text' = NoDataReport
                /\ pc' = "consolidated"
                /\ UNCHANGED <<plannerVars, storeVars>>
           ELSE /\ all_columns' = columns
                /\ prev_order' = prev_order
                /\ planner_calls' = planner_calls + 1
                /\ temp_db' = "deleted"
                /\ conn' = "closed"
                /\ \E discovered_p_columns \in
                          SetIterations({col \in columns : IsPColumn(col)}) :
                      LET master_columns ==
                              build_intelligent_column_order(columns, discovered_p_columns)
                          loaded == LoadTables(1, dataframes_list, master_columns)
                      IN  /\ final_order' = master_columns
                          /\ IF CreateRaises(master_columns)
                             THEN /\ pc' = "failed"
                                  /\ raised' = "OperationalError"
                                  /\ UNCHANGED <<consolidated_df, report_text>>
                             ELSE IF \E k \in 1..Len(dataframes_list) :
                                         AlignRaises(dataframes_list[k])
                             THEN /\ pc' = "failed"
                                  /\ raised' = "ValueError"
                                  /\ UNCHANGED <<consolidated_df, report_text>>
                             ELSE /\ pc' = "consolidated"
                                  /\ raised' = "no"
                                  /\ consolidated_df' =
                                         [columns |-> master_columns, rows |-> loaded.rows]
                                  /\ report_text' = ReportText(loaded.anomaly_reports)
    /\ UNCHANGED <<passVars, sortVars, parserVars, source_manifest, validation_report, validation_summary>>

\* The steps of consolidate_data, after the store file is created, at which the
\* environment (the file system, sqlite) can make it raise
StoreSteps == {"connect", "create", "load", "read"}

\* consolidate_data on a non-empty input, with an error raised by sqlite at the
\* given step for a reason of its environment (raised names the step).  sqlite3.connect (line 188) is called before the try statement is
\* entered; the other steps are inside it and are followed by the finally clause.
ConsolidateFails(step) ==
    /\ pc = "parsed"
    /\ LET dataframes_list == RetainedTables(table_data_list)
           columns == DiscoveredColumns(dataframes_list)
       IN  /\ columns # {}
           /\ all_columns' = columns
           /\ prev_order' = prev_order
           /\ planner_calls' = planner_calls + 1
           /\ \E discovered_p_columns \in
                     SetIterations({col \in columns : IsPColumn(col)}) :
                 final_order' = build_intelligent_column_order(columns, discovered_p_columns)
    /\ IF step = "connect"
       THEN temp_db' = "exists" /\ conn' = "none"
       ELSE temp_db' = "deleted" /\ conn' = "closed"
    /\ raised' = "sqlite3.Error at " \o step
    /\ pc' = "failed"
    /\ UNCHANGED <<passVars, sortVars, parserVars, validatorVars, report_text>>

NextParser ==
    \/ \E n \in 1..Len(SheetNames) : OpenFile(n)
    \/ OpenFails
    \/ \E row \in SheetRowUniverse : ReadRow(row)
    \/ ReadFails
    \/ ProcessSheet

\* parse_excel_files alone, on sheets that may also name a provenance column
NextSegmenter ==
    \/ \E n \in 1..Len(SheetNames) : OpenFile(n)
    \/ OpenFails
    \/ \E row \in SegmenterRowUniverse : ReadRow(row)
    \/ ReadFails
    \/ ProcessSheet

SpecParser == Init /\ [][NextSegmenter]_vars

Next ==
    \/ NextParser
    \/ Consolidate
    \/ Validate
    \/ Summarize

Spec == Init /\ [][Next]_vars

(***************************************************************************)
(* consolidate_data on its own: any sequence of tables is handed to it.    *)
(***************************************************************************)
\* The tables handed to consolidate_data: two tables of a parsed batch (the
\* second names a column with surrounding blanks and has a missing cell), a
\* table with no row, a table without the provenance columns, a table whose
\* column differs from Nome in case only, and a table that names a column twice
\* once the names are stripped.
TableUniverse ==
    { [columns |-> traceability_cols \o <<"Nome", "Idade">>,
       rows    |-> << <<PyStr("a.xlsx"), PyStr("S1"), PyInt(1), PyStr("Ana"), PyInt(30)>>,
                      <<PyStr("a.xlsx"), PyStr("S1"), PyInt(1), PyStr("Bia"), NaN>> >>],
      [columns |-> traceability_cols \o <<" Nome ", "Cidade">>,
       rows    |-> << <<PyStr("b.xlsx"), PyStr("S2"), PyInt(2), PyStr("Caio"), PyStr("Recife")>> >>],
      [columns |-> <<"Nome">>, rows |-> <<>>],
      [columns |-> <<"Email">>, rows |-> << <<PyStr("d@x")>> >>],
      [columns |-> <<"nome">>, rows |-> << <<PyStr("eva")>> >>],
      [columns |-> <<" Nome", "Nome">>, rows |-> << <<PyStr("Fabio"), PyStr("Gil")>> >>] }

InitConsolidate ==
    /\ pc = "parsed"
    /\ uploaded_files = <<>>
    /\ file_pos = 0
    /\ sheet_names = <<>>
    /\ sheet_pos = 0
    /\ sheet_rows = <<>>
    /\ rows_read = 0
    /\ table_data_list = <<>>
    /\ error_log = <<>>
    /\ source_manifest = <<>>
    /\ all_columns = {}
    /\ final_order = <<>>
    /\ prev_order = <<>>
    /\ consolidated_df = NotYet
    /\ report_text = NotYet
    /\ validation_report = NotYet
    /\ validation_summary = NotYet
    /\ StoreIdle
    /\ SortIdle
    /\ PassIdle

\* One more table in the sequence the generator will yield
AddTable(table) ==
    /\ pc = "parsed"
    /\ Len(table_data_list) < MaxTables
    /\ table_data_list' = Append(table_data_list, table)
    /\ UNCHANGED <<passVars, sortVars, pc, uploaded_files, file_pos, sheet_names, sheet_pos, sheet_rows,
                   rows_read, error_log, plannerVars, validatorVars, report_text,
                   storeVars>>

NextConsolidate ==
    \/ \E table \in TableUniverse : AddTable(table)
    \/ Consolidate
    \/ \E step \in StoreSteps : ConsolidateFails(step)

SpecConsolidate == InitConsolidate /\ [][NextConsolidate]_vars

(***************************************************************************)
(* natural_sort_key on its own: the keys of two column names are compared, *)
(* as sorted() compares them.                                              *)
(***************************************************************************)
\* Column names: question names, names without a digit, names that start with a
\* digit, a name that is a number, a name with surrounding blanks.
NameUniverse ==
    { "P1", "P01", "P2", "P10", "P9_2", "P9_10", " P2 ", "Autor", "ID Coleta",
      "a1", "1a", "10", "" }

InitSortKey ==
    /\ pc = "keys"
    /\ name_a \in NameUniverse
    /\ name_b \in NameUniverse
    /\ key_order = NotYet
    /\ all_columns = {}
    /\ final_order = <<>>
    /\ prev_order = <<>>
    /\ consolidated_df = NotYet
    /\ source_manifest = <<>>
    /\ validation_report = NotYet
    /\ validation_summary = NotYet
    /\ report_text = NotYet
    /\ ParserIdle
    /\ StoreIdle
    /\ PassIdle

\* natural_sort_key(name_a) < natural_sort_key(name_b) is evaluated
CompareKeys ==
    /\ pc = "keys"
    /\ key_order' = KeyCmp(natural_sort_key(name_a), natural_sort_key(name_b))
    /\ pc' = "compared"
    /\ UNCHANGED <<passVars, name_a, name_b, parserVars, plannerVars, validatorVars, report_text,
                   storeVars>>

NextSortKey == CompareKeys

SpecSortKey == InitSortKey /\ [][NextSortKey]_vars

(***************************************************************************)
(* The application: app.py hands the value parse_excel_files returns to     *)
(* consolidate_data as it is.                                              *)
(***************************************************************************)
\* file_handler.py line 117: return table_generator(), source_manifest -- a tuple
\* of the generator over table_data_list and the manifest list
ParseResult ==
    << [kind |-> "generator", yields |-> table_data_list],
       [kind |-> "list", items |-> source_manifest] >>

\* list(value) for a tuple: its elements, in order
ListOf(value) == [i \in 1..Len(value) |-> value[i]]

\* The object has the attribute 'empty' that line 165 of consolidate_data reads
HasEmptyAttribute(object) == object.kind = "DataFrame"

\* app.py lines 31-34: consolidate_data(parse_excel_files(uploaded_files)).  The
\* loop of line 164 enumerates the tuple; the first element it gets that is not a
\* DataFrame makes 'df.empty' raise AttributeError, before any column is
\* collected, the planner called or the store created.
AppConsolidate ==
    /\ pc = "parsed"
    /\ LET dataframes_generator == ListOf(ParseResult)
       IN  \E idx \in 1..Len(dataframes_generator) :
               ~HasEmptyAttribute(dataframes_generator[idx])
    /\ raised' = "AttributeError"
    /\ pc' = "failed"
    /\ UNCHANGED <<parserVars, plannerVars, validatorVars, report_text, planner_calls,
                   temp_db, conn, sortVars, passVars>>

NextApp ==
    \/ NextSegmenter
    \/ AppConsolidate

SpecApp == Init /\ [][NextApp]_vars

(***************************************************************************)
(* consolidate_data followed step by step: one step for each iteration of  *)
(* its two loops, one for the planner call, one for each store statement.  *)
(***************************************************************************)
\* The sequences of tables the input may yield
InputSequences == UNION {[1..n -> TableUniverse] : n \in 0..MaxTables}

InitTwoPass ==
    /\ pc = "phase1"
    /\ table_data_list \in InputSequences
    /\ uploaded_files = <<>>
    /\ file_pos = 0
    /\ sheet_names = <<>>
    /\ sheet_pos = 0
    /\ sheet_rows = <<>>
    /\ rows_read = 0
    /\ error_log = <<>>
    /\ source_manifest = <<>>
    /\ all_columns = {}
    /\ final_order = <<>>
    /\ prev_order = <<>>
    /\ consolidated_df = NotYet
    /\ report_text = NotYet
    /\ validation_report = NotYet
    /\ validation_summary = NotYet
    /\ StoreIdle
    /\ SortIdle
    /\ PassIdle

\* Lines 164-171: one iteration of the discovery loop: the next table is taken
\* from the input; the stripped column names of a non-empty table join all_columns
DiscoverTable ==
    /\ pc = "phase1"
    /\ drained < Len(table_data_list)
    /\ drained' = drained + 1
    /\ LET df == table_data_list[drained + 1]
       IN  all_columns' = IF IsEmptyTable(df) THEN all_columns
                          ELSE all_columns \cup Range(StripColumns(df).columns)
    /\ UNCHANGED <<pc, parserVars, final_order, prev_order, validatorVars, report_text,
                   storeVars, sortVars, loaded_tables, store_rows>>

\* Lines 177-178: the input is exhausted and no column was found
ReturnNoData ==
    /\ pc = "phase1"
    /\ drained = Len(table_data_list)
    /\ all_columns = {}
    /\ consolidated_df' = [columns |-> <<>>, rows |-> <<>>]
    /\ report_text' = NoDataReport
    /\ pc' = "consolidated"
    /\ UNCHANGED <<parserVars, plannerVars, source_manifest, validation_report,
                   validation_summary, storeVars, sortVars, passVars>>

\* Mutant of PlanOrder: the planner is called as soon as a column is known, the
\* input not yet exhausted.
PlanOrderWhileDiscovering ==
    /\ pc = "phase1"
    /\ drained >= 1
    /\ all_columns # {}
    /\ \E discovered_p_columns \in SetIterations({col \in all_columns : IsPColumn(col)}) :
           final_order' = build_intelligent_column_order(all_columns, discovered_p_columns)
    /\ planner_calls' = planner_calls + 1
    /\ pc' = "phase2"
    /\ UNCHANGED <<parserVars, all_columns, prev_order, validatorVars, report_text,
                   temp_db, conn, raised, sortVars, passVars>>

\* Line 182: the input is exhausted; the planner is called on the union
PlanOrder ==
    /\ pc = "phase1"
    /\ drained = Len(table_data_list)
    /\ all_columns # {}
    /\ \E discovered_p_columns \in SetIterations({col \in all_columns : IsPColumn(col)}) :
           final_order' = build_intelligent_column_order(all_columns, discovered_p_columns)
    /\ planner_calls' = planner_calls + 1
    /\ pc' = "phase2"
    /\ UNCHANGED <<parserVars, all_columns, prev_order, validatorVars, report_text,
                   temp_db, conn, raised, sortVars, passVars>>

\* Lines 187-195: the store is created and connected to, and CREATE TABLE is
\* executed; when it raises, the finally clause closes and deletes the store
CreateStore ==
    /\ pc = "phase2"
    /\ IF CreateRaises(final_order)
       THEN /\ pc' = "failed"
            /\ raised' = "OperationalError"
            /\ temp_db' = "deleted"
            /\ conn' = "closed"
       ELSE /\ pc' = "phase3"
            /\ raised' = raised
            /\ temp_db' = "exists"
            /\ conn' = "open"
    /\ UNCHANGED <<parserVars, plannerVars, validatorVars, report_text, planner_calls,
                   sortVars, passVars>>

\* Lines 201-226: one iteration of the load loop: the rows of the next kept table,
\* aligned on the target schema, are appended to the store
LoadTable ==
    /\ pc = "phase3"
    /\ LET dataframes_list == RetainedTables(SubSeq(table_data_list, 1, drained))
       IN  /\ loaded_tables < Len(dataframes_list)
           /\ IF AlignRaises(dataframes_list[loaded_tables + 1])
              THEN /\ pc' = "failed"
                   /\ raised' = "ValueError"
                   /\ temp_db' = "deleted"
                   /\ conn' = "closed"
                   /\ UNCHANGED <<loaded_tables, store_rows>>
              ELSE /\ store_rows' = store_rows
                          \o AlignedRows(dataframes_list[loaded_tables + 1], final_order)
                   /\ loaded_tables' = loaded_tables + 1
                   /\ UNCHANGED <<pc, temp_db, conn, raised>>
    /\ UNCHANGED <<parserVars, plannerVars, validatorVars, report_text, planner_calls,
                   sortVars, drained>>

\* Lines 229-246: every kept table is loaded; the store is read back in the
\* target schema and the report is formatted, then the store is closed and deleted
ReadBack ==
    /\ pc = "phase3"
    /\ LET dataframes_list == RetainedTables(SubSeq(table_data_list, 1, drained))
       IN  /\ loaded_tables = Len(dataframes_list)
           /\ consolidated_df' = [columns |-> final_order, rows |-> store_rows]
           /\ report_text' =
                  ReportText(LoadTables(1, dataframes_list, final_order).anomaly_reports)
    /\ temp_db' = "deleted"
    /\ conn' = "closed"
    /\ pc' = "consolidated"
    /\ UNCHANGED <<parserVars, plannerVars, source_manifest, validation_report,
                   validation_summary, planner_calls, raised, sortVars, passVars>>

NextTwoPass ==
    \/ DiscoverTable
    \/ ReturnNoData
    \/ PlanOrder
    \/ CreateStore
    \/ LoadTable
    \/ ReadBack

SpecTwoPass == InitTwoPass /\ [][NextTwoPass]_vars

(***************************************************************************)
(* Properties of the planner (SpecPlanner).                                *)
(***************************************************************************)
Planned == pc \in {"planned", "replanned"}

\* x comes before y in seq whenever both occur in it
Before(seq, x, y) ==
    (x \in Range(seq) /\ y \in Range(seq)) => Position(seq, x) < Position(seq, y)

IsUnexpected(col) ==
    /\ col \notin traceability_set
    /\ col \notin Range(TEMPLATE_SCHEMA)
    /\ ~IsPColumn(col)

\* C1: the list returned by _build_intelligent_column_order holds every input name
\* exactly once and no other name.
C1_PlannerPermutation ==
    Planned =>
        /\ Range(final_order) = all_columns
        /\ Len(final_order) = Cardinality(all_columns)

\* A call on a provenance name, a template P# name, a P# name outside the
\* template (which steps 2 and 6 both select) and an unknown name.
C1_Witness ==
    /\ Planned
    /\ all_columns = {"Nome do Arquivo de Origem", "P1", "P01", "Nova_A"}
    /\ Len(final_order) = 4

\* C4: two calls of the planner on the same set return the same sequence, however
\* the set is enumerated.
C4_PlannerOrderIndependent ==
    pc = "replanned" => final_order = prev_order

\* C5: the P# columns of the output are in natural numeric order of their keys:
\* P1, P2, P10 and P9_1, P9_2, P9_10.
C5_QuestionColumnsNaturalOrder ==
    Planned =>
        /\ \A i, j \in 1..Len(final_order) :
               (i < j /\ IsPColumn(final_order[i]) /\ IsPColumn(final_order[j])) =>
                   KeyCmp(natural_sort_key(final_order[i]),
                          natural_sort_key(final_order[j])) \in {"lt", "eq"}
        /\ Before(final_order, "P1", "P2")
        /\ Before(final_order, "P2", "P10")
        /\ Before(final_order, "P9_1", "P9_2")
        /\ Before(final_order, "P9_2", "P9_10")
        /\ Before(final_order, "P9_10", "P10")

C5_Witness ==
    /\ Planned
    /\ final_order = <<"P2", "P9_2", "P9_10", "P10">>

\* C6: the provenance columns that are present lead the output, in the order
\* source file, source sheet, table index; no other column precedes one of them.
C6_ProvenanceColumnsLead ==
    Planned =>
        /\ \A i \in 1..Len(final_order) :
               final_order[i] \in traceability_set =>
                   \A j \in 1..(i - 1) :
                       /\ final_order[j] \in traceability_set
                       /\ Position(traceability_cols, final_order[j])
                              < Position(traceability_cols, final_order[i])
        /\ traceability_set \subseteq all_columns =>
               SubSeq(final_order, 1, 3) = traceability_cols

C6_Witness ==
    /\ Planned
    /\ final_order = traceability_cols \o <<"P1">>

\* C7: every unexpected column comes after every template column and every P#
\* column, and the unexpected columns are in ascending string order.
C7_UnexpectedColumnsLast ==
    Planned =>
        /\ \A i, j \in 1..Len(final_order) :
               ( /\ IsUnexpected(final_order[i])
                 /\ (final_order[j] \in Range(TEMPLATE_SCHEMA) \/ IsPColumn(final_order[j])) )
               => j < i
        /\ \A i, j \in 1..Len(final_order) :
               (i < j /\ IsUnexpected(final_order[i]) /\ IsUnexpected(final_order[j]))
               => StrLess(final_order[i], final_order[j])
        /\ Before(final_order, "Nova_A", "Nova_Z")

C7_Witness ==
    /\ Planned
    /\ final_order = <<"P01", "IDADE", "Nova_A", "Nova_Z">>

\* The template's columns that are not P# columns, among the planned ones
PlainTemplateColumns ==
    {col \in all_columns : /\ col \in Range(TEMPLATE_SCHEMA)
                           /\ ~IsPColumn(col)
                           /\ col \notin traceability_set}

\* The P# columns among the planned ones
QuestionColumns == {col \in all_columns : IsPColumn(col)}

\* The position in the template of its first P# entry
FirstQuestionEntry ==
    CHOOSE i \in 1..Len(TEMPLATE_SCHEMA) :
        /\ IsPColumn(TEMPLATE_SCHEMA[i])
        /\ \A j \in 1..(i - 1) : ~IsPColumn(TEMPLATE_SCHEMA[j])

\* C22: in the planner's output the template's non-P# columns keep the order they
\* have in the template; the P# columns are there once each, as one contiguous
\* block; every template non-P# column listed before the template's first P#
\* entry precedes the block and every one listed after it follows the block.
C22_QuestionBlockAtFirstEntry ==
    Planned =>
        /\ \A a, b \in PlainTemplateColumns :
               Position(TEMPLATE_SCHEMA, a) < Position(TEMPLATE_SCHEMA, b) =>
                   Position(final_order, a) < Position(final_order, b)
        /\ \A q \in QuestionColumns :
               Cardinality({i \in 1..Len(final_order) : final_order[i] = q}) = 1
        /\ \A i, j, k \in 1..Len(final_order) :
               (i < j /\ j < k /\ IsPColumn(final_order[i]) /\ IsPColumn(final_order[k]))
               => IsPColumn(final_order[j])
        /\ \A c \in PlainTemplateColumns : \A q \in QuestionColumns :
               IF Position(TEMPLATE_SCHEMA, c) < FirstQuestionEntry
               THEN Position(final_order, c) < Position(final_order, q)
               ELSE Position(final_order, q) < Position(final_order, c)

\* Two columns listed before the template's first P# entry, a P# column and a
\* column listed after it
C22_Witness ==
    /\ Planned
    /\ all_columns = {"Autor", "FONE", "ID Coleta", "P2"}
    /\ final_order = <<"ID Coleta", "Autor", "P2", "FONE">>

(***************************************************************************)
(* Properties of the validator (SpecValidator).                            *)
(***************************************************************************)
Validated == pc \in {"validated", "summarized"}

\* The unified rows that carry the provenance of a manifest entry
RowsOf(table_info) ==
    {i \in 1..Len(consolidated_df.rows) :
        /\ consolidated_df.rows[i][FILE_COL] = PyStr(table_info.file_name)
        /\ consolidated_df.rows[i][SHEET_COL] = PyStr(table_info.sheet_name)
        /\ consolidated_df.rows[i][INDEX_COL] = PyStr(IntToStr(table_info.table_index))}

TotalsEqual == SumRowCounts(source_manifest) = Len(consolidated_df.rows)

NoTableMismatch ==
    \A k \in 1..Len(source_manifest) :
        Cardinality(RowsOf(source_manifest[k])) = source_manifest[k].row_count

\* C8: the validator's verdict is success exactly when the totals are equal and
\* no manifest entry has a per-table count mismatch.
C8_VerdictIffTotalsAndTables ==
    /\ (Validated /\ validation_report.raised = "no") =>
           (validation_report.result = "SUCESSO" <=> (TotalsEqual /\ NoTableMismatch))
    /\ (pc = "summarized" /\ validation_summary.raised = "no") =>
           (validation_summary.is_valid <=> (TotalsEqual /\ NoTableMismatch))

\* Equal totals that hide compensating errors: one table with an extra row, one
\* with a row too few, and the verdict is failure.
C8_Witness ==
    /\ pc = "summarized"
    /\ validation_report.raised = "no"
    /\ TotalsEqual
    /\ \E k1, k2 \in 1..Len(source_manifest) :
           /\ Cardinality(RowsOf(source_manifest[k1])) > source_manifest[k1].row_count
           /\ Cardinality(RowsOf(source_manifest[k2])) < source_manifest[k2].row_count
    /\ validation_report.result = "FALHA"
    /\ validation_summary.is_valid = FALSE

\* C9: validate_consolidation and get_validation_summary return a report; they
\* never raise.
C9_ValidatorNeverRaises ==
    /\ Validated => validation_report.raised = "no"
    /\ pc = "summarized" => validation_summary.raised = "no"

\* Both validator entry points have run on the same input and have returned
BothReturned ==
    /\ pc = "summarized"
    /\ validation_report.raised = "no"
    /\ validation_summary.raised = "no"

\* The per-table lines of the report that carry the error status
ErrorLines ==
    SelectSeq(validation_report.table_lines, LAMBDA line : line.status = "ERRO")

\* C27: when validate_consolidation and get_validation_summary both return on the
\* same input, the report's verdict is SUCESSO exactly when is_valid is true, the
\* number of per-table error lines is validation_errors, and the totals and the
\* absolute difference are the same in both.
C27_EntryPointsAgree ==
    BothReturned =>
        /\ (validation_report.result = "SUCESSO") <=> validation_summary.is_valid
        /\ Len(ErrorLines) = validation_summary.validation_errors
        /\ Len(validation_report.errors) = validation_summary.validation_errors
        /\ validation_report.total_source_rows = validation_summary.total_source_rows
        /\ validation_report.total_consolidated_rows
               = validation_summary.total_consolidated_rows
        /\ validation_report.difference = validation_summary.difference

\* Both return on an input whose totals match while a table's count is wrong
C27_Witness ==
    /\ BothReturned
    /\ validation_summary.totals_match
    /\ validation_summary.validation_errors >= 1
    /\ ~validation_summary.is_valid
    /\ validation_report.result = "FALHA"

(***************************************************************************)
(* Properties of the segmenter (SpecParser).                               *)
(***************************************************************************)
\* The number of maximal runs of at least two consecutive non-blank rows in the
\* rows of grid, run_len non-blank rows having been seen since the last blank one
RECURSIVE CountDataRuns(_, _)
CountDataRuns(grid, run_len) ==
    LET closed == IF run_len >= 2 THEN 1 ELSE 0
    IN  IF grid = <<>> THEN closed
        ELSE IF IsBlankRow(Head(grid)) THEN closed + CountDataRuns(Tail(grid), 0)
        ELSE CountDataRuns(Tail(grid), run_len + 1)

\* No cell of the grid is the name of a provenance column
NoProvenanceText(grid) ==
    \A i \in 1..Len(grid) : \A j \in 1..Len(grid[i]) :
        \A col \in traceability_set : grid[i][j] # PyStr(col)

\* C10: the manifest entries one sheet adds carry the table indices 1, 2, ..., k in
\* order, with the sheet's own file and sheet name; k is at most the number of
\* runs of two or more non-blank rows (a shorter run is discarded and consumes no
\* index), and is that number when no cell names a provenance column.
C10_TableIndicesRestartAndRun ==
    [][ pc = "read_sheet" =>
          LET added == SubSeq(source_manifest', Len(source_manifest) + 1,
                              Len(source_manifest'))
          IN  /\ Len(source_manifest') >= Len(source_manifest)
              /\ SubSeq(source_manifest', 1, Len(source_manifest)) = source_manifest
              /\ \A k \in 1..Len(added) :
                     /\ added[k].table_index = k
                     /\ added[k].file_name = uploaded_files[file_pos]
                     /\ added[k].sheet_name = sheet_names[sheet_pos]
              /\ Len(added) <= CountDataRuns(sheet_rows, 0)
              /\ (rows_read' = rows_read /\ NoProvenanceText(sheet_rows))
                     => Len(added) = CountDataRuns(sheet_rows, 0)
      ]_vars

\* Two tables emitted from one sheet carry the indices 1 and 2
C10_Witness ==
    /\ Len(source_manifest) = 2
    /\ source_manifest[1].sheet_name = "S1" /\ source_manifest[1].table_index = 1
    /\ source_manifest[2].sheet_name = "S1" /\ source_manifest[2].table_index = 2
    /\ source_manifest[1].file_name = source_manifest[2].file_name

\* The files of the batch whose processing ended in the except clause
FailedFiles == Range(error_log)

\* C12: a file that could not be read contributes no table and no manifest entry:
\* every manifest entry and every table carries the name of a file of the batch
\* that did not fail.
C12_FailedFileContributesNothing ==
    /\ \A k \in 1..Len(source_manifest) :
           \E q \in 1..Len(uploaded_files) :
               q \notin FailedFiles /\ uploaded_files[q] = source_manifest[k].file_name
    /\ \A k \in 1..Len(table_data_list) :
           \E q \in 1..Len(uploaded_files) :
               /\ q \notin FailedFiles
               /\ PyStr(uploaded_files[q]) = table_data_list[k].rows[1][1]

\* The step processes the sheet just read (it is neither one more row read nor a
\* failure of the read)
ProcessesSheet ==
    /\ pc = "read_sheet"
    /\ rows_read' = rows_read
    /\ <<pc, file_pos, sheet_pos>>' # <<pc, file_pos, sheet_pos>>
    /\ ~(sheet_rows = <<>> /\ error_log' # error_log)

\* Every row of the sheet just read is blank (a sheet without a row included)
AllRowsBlank == \A i \in 1..Len(sheet_rows) : IsBlankRow(sheet_rows[i])

\* C19: processing a sheet in which every row is blank adds no table and no
\* manifest entry and is not an error; and whatever sheets came before, the
\* entries a sheet adds are numbered 1, 2, ... and the earlier entries stay as
\* they were.
C19_BlankSheetYieldsNothing ==
    [][ProcessesSheet =>
          /\ AllRowsBlank =>
                 /\ table_data_list' = table_data_list
                 /\ source_manifest' = source_manifest
                 /\ error_log' = error_log
          /\ Len(source_manifest') >= Len(source_manifest)
          /\ SubSeq(source_manifest', 1, Len(source_manifest)) = source_manifest
          /\ \A n \in (Len(source_manifest) + 1)..Len(source_manifest') :
                 source_manifest'[n].table_index = n - Len(source_manifest)
       ]_vars

\* The first sheet had no row and was processed; the second sheet, of two rows,
\* gave its table the index 1
C19_Witness ==
    /\ pc = "parsed"
    /\ rows_read = 2
    /\ error_log = <<>>
    /\ Len(table_data_list) = 1
    /\ Len(source_manifest) = 1
    /\ source_manifest[1].sheet_name = SheetNames[2]
    /\ source_manifest[1].table_index = 1
    /\ source_manifest[1].row_count = 1

\* C24: the manifest and the sequence of emitted tables correspond position by
\* position, also when a file has failed part-way: they have the same length, the
\* i-th entry's file, sheet and table index are the provenance values of every
\* row of the i-th table, and its row_count is the table's number of rows, which
\* is at least 1.
C24_ManifestMatchesTables ==
    /\ Len(source_manifest) = Len(table_data_list)
    /\ \A i \in 1..Len(source_manifest) :
           LET entry == source_manifest[i]
               table == table_data_list[i]
           IN  /\ Len(table.columns) >= 3
               /\ SubSeq(table.columns, 1, 3) = traceability_cols
               /\ entry.row_count = Len(table.rows)
               /\ entry.row_count >= 1
               /\ \A j \in 1..Len(table.rows) :
                      /\ table.rows[j][1] = PyStr(entry.file_name)
                      /\ table.rows[j][2] = PyStr(entry.sheet_name)
                      /\ table.rows[j][3] = PyInt(entry.table_index)

\* The first sheet of the first file gave a table, then the file failed; the
\* second file gave a table
C24_Witness ==
    /\ pc = "parsed"
    /\ Len(uploaded_files) = 2
    /\ error_log = <<1>>
    /\ Len(source_manifest) = 2
    /\ Len(table_data_list) = 2
    /\ source_manifest[1].file_name = uploaded_files[1]
    /\ source_manifest[2].file_name = uploaded_files[2]
    /\ uploaded_files[1] # uploaded_files[2]

\* Row i of grid starts a maximal run of consecutive non-blank rows
IsRunStart(grid, i) ==
    ~IsBlankRow(grid[i]) /\ (i = 1 \/ IsBlankRow(grid[i - 1]))

\* The last row of the maximal run of non-blank rows that row i starts
RunEnd(grid, i) ==
    CHOOSE j \in i..Len(grid) :
        /\ \A m \in i..j : ~IsBlankRow(grid[m])
        /\ (j = Len(grid) \/ IsBlankRow(grid[j + 1]))

\* The first rows of the maximal runs of grid, ascending
RunStarts(grid) ==
    SelectSeq([i \in 1..Len(grid) |-> i], LAMBDA i : IsRunStart(grid, i))

\* The number of rows of the tables, each table's header row counted
RECURSIVE RowsWithHeaders(_)
RowsWithHeaders(tables) ==
    IF tables = <<>> THEN 0
    ELSE Len(Head(tables).rows) + 1 + RowsWithHeaders(Tail(tables))

\* table is the run first..last of grid: the first row of the run is its header,
\* the rows after it are its rows, in order, under the columns of the sheet in
\* which the run has a value
IsRunAsTable(table, grid, first, last) ==
    LET kept == {c \in 1..Len(grid[first]) : \E i \in first..last : ~IsNull(grid[i][c])}
        rank(c) == Cardinality({d \in kept : d <= c})
    IN  /\ Len(table.columns) = 3 + Cardinality(kept)
        /\ Len(table.rows) = last - first
        /\ \A c \in kept :
               ~IsNull(grid[first][c]) =>
                   table.columns[3 + rank(c)] = AsStr(grid[first][c])
        /\ \A j \in 1..(last - first) :
               /\ Len(table.rows[j]) = 3 + Cardinality(kept)
               /\ \A c \in kept : table.rows[j][3 + rank(c)] = grid[first + j][c]

\* C25: a sheet that is processed without an error is cut into its maximal runs
\* of consecutive non-blank rows: the tables it adds are, in order, the runs of two
\* rows or more, each with the run's first row as header and the run's other rows
\* as rows, none of them blank; a run of one row gives its header and no table;
\* and the non-blank rows of the sheet number the sum over the runs of the data
\* rows plus one.
C25_SlicesAreMaximalRuns ==
    [][(ProcessesSheet /\ error_log' = error_log) =>
          LET grid == sheet_rows
              runs == RunStarts(grid)
              long == SelectSeq(runs, LAMBDA i : RunEnd(grid, i) > i)
              added == SubSeq(table_data_list', Len(table_data_list) + 1,
                              Len(table_data_list'))
          IN  /\ Len(added) = Len(long)
              /\ \A k \in 1..Len(long) :
                     /\ IsRunAsTable(added[k], grid, long[k], RunEnd(grid, long[k]))
                     /\ \A j \in 1..Len(added[k].rows) :
                            ~IsBlankRow(SubSeq(added[k].rows[j], 4, Len(added[k].rows[j])))
              /\ Cardinality({i \in 1..Len(grid) : ~IsBlankRow(grid[i])})
                     = RowsWithHeaders(added) + (Len(runs) - Len(long))
      ]_vars

\* The first sheet, of five rows, is processed: a run of three rows gave a table
\* of two rows; its two other rows are blank rows or runs of one row
C25_Witness ==
    /\ pc = "read_sheet"
    /\ sheet_pos = 2
    /\ sheet_rows = <<>>
    /\ rows_read = 5
    /\ error_log = <<>>
    /\ Len(source_manifest) = 1
    /\ source_manifest[1].row_count = 2
    /\ Len(table_data_list[1].rows) = 2

(***************************************************************************)
(* Properties of the application (SpecApp).                                *)
(***************************************************************************)
\* C26: the value parse_excel_files returns, listed, is the sequence of the
\* extracted tables, one element for each table; and consolidate_data, handed
\* that value, consolidates those tables (it does not fail on the value itself).
C26_ReturnValueIsTheTableSequence ==
    /\ pc = "parsed" =>
           /\ Len(ListOf(ParseResult)) = Len(table_data_list)
           /\ \A i \in 1..Len(ListOf(ParseResult)) :
                  HasEmptyAttribute(ListOf(ParseResult)[i])
    /\ pc = "failed" => raised # "AttributeError"

(***************************************************************************)
(* Properties of the pipeline (Spec).                                      *)
(***************************************************************************)
Consolidated == pc \in {"consolidated", "validated", "summarized"}

\* C2: when consolidate_data has returned the unified table of a batch, the sum
\* of row_count over the manifest entries of the batch equals the number of rows
\* of the unified table.
C2_RowCountConservation ==
    Consolidated => SumRowCounts(source_manifest) = Len(consolidated_df.rows)

\* Two uploaded files with the same name, one table each, consolidated
C2_Witness ==
    /\ pc = "consolidated"
    /\ uploaded_files = <<"a.xlsx", "a.xlsx">>
    /\ Len(source_manifest) = 2
    /\ Len(consolidated_df.rows) = 2

\* C3: when no row is lost, the validator run on the unified table and the
\* manifest of the same run reports totals_match, no per-table error and is_valid.
C3_ValidatorAcceptsOwnRun ==
    (pc = "summarized" /\ validation_report.raised = "no"
        /\ validation_summary.raised = "no" /\ TotalsEqual)
    => /\ validation_summary.totals_match
       /\ validation_summary.validation_errors = 0
       /\ validation_summary.is_valid
       /\ validation_report.result = "SUCESSO"

\* C21: every table the segmenter has emitted has column names that are
\* pairwise distinct and carry no surrounding whitespace, whatever its header
\* row was.
C21_EmittedColumnsDistinctAndTrimmed ==
    \A k \in 1..Len(table_data_list) :
        LET columns == table_data_list[k].columns
        IN  /\ \A i, j \in 1..Len(columns) : i # j => columns[i] # columns[j]
            /\ \A i \in 1..Len(columns) : Strip(columns[i]) = columns[i]

(***************************************************************************)
(* Properties of consolidate_data (SpecConsolidate).                       *)
(***************************************************************************)
\* The positions in the input of the tables that have a row and a column
KeptPositions ==
    SelectSeq([k \in 1..Len(table_data_list) |-> k],
              LAMBDA k : /\ Len(table_data_list[k].rows) > 0
                         /\ Len(table_data_list[k].columns) > 0)

\* The trimmed column names of the k-th input table
OwnColumns(k) ==
    {Strip(table_data_list[k].columns[j]) : j \in 1..Len(table_data_list[k].columns)}

\* The target columns the k-th input table lacks, the provenance columns aside
MissingOf(k) == (Range(consolidated_df.columns) \ OwnColumns(k)) \ traceability_set

\* The kept tables that lack a target column, in input order
LackingPositions == SelectSeq(KeptPositions, LAMBDA k : MissingOf(k) # {})

\* seq is in strictly ascending string order
StrictlyAscending(seq) == \A i \in 1..(Len(seq) - 1) : StrLess(seq[i], seq[i + 1])

\* The anomaly lines of the report
ReportLines == IF report_text.kind = "lines" THEN report_text.v ELSE <<>>

\* C11: the anomaly report has one line for each kept table that lacks a
\* non-provenance target column and none for any other table, in table order;
\* the line lists exactly the lacking columns in ascending order and carries the
\* table's own file, sheet and table index.
C11_AnomalyLinePerLackingTable ==
    (Consolidated /\ KeptPositions # <<>>) =>
        /\ Len(ReportLines) = Len(LackingPositions)
        /\ \A n \in 1..Len(ReportLines) :
               LET k == LackingPositions[n]
                   table == table_data_list[k]
               IN  /\ Range(ReportLines[n].missing) = MissingOf(k)
                   /\ StrictlyAscending(ReportLines[n].missing)
                   /\ FILE_COL \in Range(table.columns) =>
                          ReportLines[n].file =
                              AsStr(table.rows[1][Position(table.columns, FILE_COL)])
                   /\ SHEET_COL \in Range(table.columns) =>
                          ReportLines[n].sheet =
                              AsStr(table.rows[1][Position(table.columns, SHEET_COL)])
                   /\ INDEX_COL \in Range(table.columns) =>
                          ReportLines[n].table =
                              AsStr(table.rows[1][Position(table.columns, INDEX_COL)])

\* Two tables, each lacking a column of the other: two lines, in table order
C11_Witness ==
    /\ pc = "consolidated"
    /\ Len(table_data_list) = 2
    /\ Len(ReportLines) = 2
    /\ ReportLines[1].missing = <<"Cidade">>
    /\ ReportLines[2].missing = <<"Idade">>

\* The number of rows of the kept tables that come before the n-th kept table
RECURSIVE RowsBefore(_)
RowsBefore(n) ==
    IF n <= 1 THEN 0
    ELSE RowsBefore(n - 1) + Len(table_data_list[KeptPositions[n - 1]].rows)

\* The unified row at position i is row j of the k-th input table: it holds the
\* text of every cell of that row that is not blank, under the cell's column.
IsRowOf(i, k, j) ==
    LET table == table_data_list[k]
    IN  \A c \in 1..Len(table.columns) :
            ~IsNull(table.rows[j][c]) =>
                consolidated_df.rows[i][Strip(table.columns[c])]
                    = PyStr(AsStr(table.rows[j][c]))

\* C15: the unified rows are the rows of the non-empty input tables, table after
\* table in input order and, within a table, in the table's row order.
C15_RowsInTableOrder ==
    (Consolidated /\ KeptPositions # <<>>) =>
        /\ Len(consolidated_df.rows) = RowsBefore(Len(KeptPositions) + 1)
        /\ \A n \in 1..Len(KeptPositions) :
               \A j \in 1..Len(table_data_list[KeptPositions[n]].rows) :
                   IsRowOf(RowsBefore(n) + j, KeptPositions[n], j)

\* A table of one row consolidated before a table of two rows
C15_Witness ==
    /\ pc = "consolidated"
    /\ Len(KeptPositions) = 2
    /\ Len(consolidated_df.rows) = 3
    /\ "Nome" \in Range(consolidated_df.columns)
    /\ consolidated_df.rows[1]["Nome"] = PyStr("Caio")
    /\ consolidated_df.rows[2]["Nome"] = PyStr("Ana")
    /\ consolidated_df.rows[3]["Nome"] = PyStr("Bia")

\* C16: every unified cell is null when its column is not a column of the row's
\* table, null when the source value is missing (its text form is 'nan'), and the
\* text form of the source value otherwise.
C16_CellsAlignedAndStringified ==
    (Consolidated /\ KeptPositions # <<>>) =>
        \A n \in 1..Len(KeptPositions) :
            LET table == table_data_list[KeptPositions[n]]
            IN  \A j \in 1..Len(table.rows) :
                    \A col \in Range(consolidated_df.columns) :
                        LET cell == consolidated_df.rows[RowsBefore(n) + j][col]
                            own == {c \in 1..Len(table.columns) : Strip(table.columns[c]) = col}
                        IN  IF own = {} THEN cell = None
                            ELSE \A c \in own :
                                    IF AsStr(table.rows[j][c]) = "nan"
                                    THEN cell = None
                                    ELSE cell = PyStr(AsStr(table.rows[j][c]))

\* A row with a missing Idade, consolidated with a table that has a Cidade column:
\* both cells are null, the int of the table index is stored as text
C16_Witness ==
    /\ pc = "consolidated"
    /\ Len(consolidated_df.rows) = 3
    /\ {"Nome", "Idade", "Cidade", INDEX_COL} \subseteq Range(consolidated_df.columns)
    /\ consolidated_df.rows[2]["Nome"] = PyStr("Bia")
    /\ consolidated_df.rows[2]["Idade"] = None
    /\ consolidated_df.rows[2]["Cidade"] = None
    /\ consolidated_df.rows[1]["Idade"] = PyStr("30")
    /\ consolidated_df.rows[2][INDEX_COL] = PyStr("1")

\* consolidate_data has returned or raised
ConsolidateDone == pc \in {"consolidated", "failed"}

\* The report is the text that says no table has data
IsNoDataSentinel ==
    report_text.kind = "text" /\ report_text.v = "No data found in any tables"

\* C17: on an input of no table or of empty tables only, consolidate_data returns
\* an empty unified table with the 'No data found in any tables' report, raises
\* nothing, does not call the planner and creates no store; on an input with a
\* non-empty table it does not return that report.
C17_EmptyInputSentinel ==
    ConsolidateDone =>
        /\ KeptPositions = <<>> =>
               /\ pc = "consolidated"
               /\ raised = "no"
               /\ consolidated_df = [columns |-> <<>>, rows |-> <<>>]
               /\ IsNoDataSentinel
               /\ planner_calls = 0
               /\ temp_db = "none"
               /\ conn = "none"
        /\ (KeptPositions # <<>> /\ pc = "consolidated") => ~IsNoDataSentinel

\* Two tables without a row, consolidated
C17_Witness ==
    /\ pc = "consolidated"
    /\ Len(table_data_list) = 2
    /\ KeptPositions = <<>>
    /\ IsNoDataSentinel
    /\ planner_calls = 0

\* The file, sheet and table index an anomaly line gives for the k-th input table
ProvenanceOf(k) ==
    LET table == table_data_list[k]
        first(col, default) ==
            IF col \in Range(table.columns)
            THEN AsStr(table.rows[1][Position(table.columns, col)]) ELSE default
    IN  [file  |-> first(FILE_COL, "Unknown"),
         sheet |-> first(SHEET_COL, "Unknown"),
         table |-> first(INDEX_COL, IntToStr(k))]

\* The anomaly lines about the k-th input table
LinesAbout(k) ==
    {n \in 1..Len(ReportLines) :
        [file  |-> ReportLines[n].file,
         sheet |-> ReportLines[n].sheet,
         table |-> ReportLines[n].table] = ProvenanceOf(k)}

\* The rows of the k-th input table are in the unified table with the values of
\* their c-th column under the column called name
HoldsValuesOf(k, c, name) ==
    LET n == CHOOSE n \in 1..Len(KeptPositions) : KeptPositions[n] = k
        table == table_data_list[k]
    IN  \A j \in 1..Len(table.rows) :
            ~IsNull(table.rows[j][c]) =>
                consolidated_df.rows[RowsBefore(n) + j][name]
                    = PyStr(AsStr(table.rows[j][c]))

\* C18: when two tables consolidated together have a column whose names differ
\* only by surrounding whitespace, the unified table has exactly one column of the
\* trimmed name, it holds the values of both tables, and no anomaly line about
\* either table lists it as missing.
C18_TrimmedNamesAreOneColumn ==
    (Consolidated /\ KeptPositions # <<>>) =>
        \A k1, k2 \in Range(KeptPositions) :
            \A c1 \in 1..Len(table_data_list[k1].columns) :
                \A c2 \in 1..Len(table_data_list[k2].columns) :
                    LET n1 == table_data_list[k1].columns[c1]
                        n2 == table_data_list[k2].columns[c2]
                        name == Strip(n1)
                    IN  (k1 # k2 /\ n1 # n2 /\ Strip(n2) = name) =>
                            /\ name \in Range(consolidated_df.columns)
                            /\ Cardinality({p \in 1..Len(consolidated_df.columns) :
                                   Strip(consolidated_df.columns[p]) = name}) = 1
                            /\ HoldsValuesOf(k1, c1, name)
                            /\ HoldsValuesOf(k2, c2, name)
                            /\ \A n \in LinesAbout(k1) \cup LinesAbout(k2) :
                                   name \notin Range(ReportLines[n].missing)

\* A table with a 'Nome' column consolidated with a table with a ' Nome ' column
C18_Witness ==
    /\ pc = "consolidated"
    /\ Len(table_data_list) = 2
    /\ "Nome" \in Range(table_data_list[1].columns)
    /\ " Nome " \in Range(table_data_list[2].columns)
    /\ " Nome " \notin Range(consolidated_df.columns)
    /\ "Nome" \in Range(consolidated_df.columns)
    /\ consolidated_df.rows[1]["Nome"] = PyStr("Ana")
    /\ consolidated_df.rows[3]["Nome"] = PyStr("Caio")
    /\ LinesAbout(1) # {}
    /\ LinesAbout(2) # {}

\* The report of the state is the 'no anomaly' text when no kept table lacks a
\* target column (the provenance columns aside), and the anomaly lines, one or
\* more, otherwise
ReportMatchesMissing ==
    IF \A k \in Range(KeptPositions) :
           (Range(final_order) \ OwnColumns(k)) \ traceability_set = {}
    THEN report_text = [kind |-> "text", v |-> "Nenhuma anomalia detectada."]
    ELSE report_text.kind = "lines" /\ Len(report_text.v) > 0

\* The exception that left consolidate_data came from sqlite's environment (the
\* file system, the library), not from the tables
EnvironmentFault == raised \in {"sqlite3.Error at " \o step : step \in StoreSteps}

\* C20: on an input with a non-empty table, and sqlite's environment sound,
\* consolidate_data returns (it does not raise) a unified table and a report,
\* and the report is exactly 'Nenhuma anomalia detectada.' if and only if no kept
\* table lacks a non-provenance target column; otherwise it is the anomaly lines.
C20_RunCompletesWithReport ==
    (ConsolidateDone /\ KeptPositions # <<>> /\ ~EnvironmentFault) =>
        /\ pc = "consolidated"
        /\ raised = "no"
        /\ consolidated_df.columns = final_order
        /\ ReportMatchesMissing

\* C13: once the temporary store has been created, consolidate_data leaves with
\* the connection closed and the store's file deleted, whether it returns or
\* raises.
C13_StoreReleasedOnEveryExit ==
    temp_db # "none" => (conn = "closed" /\ temp_db = "deleted")

(***************************************************************************)
(* Properties of consolidate_data step by step (SpecTwoPass).              *)
(***************************************************************************)
\* The planner has been called only after the whole input was taken, at most
\* once, exactly once where a run with columns is past the call, and the store
\* holds no row without it
TwoPassOrder ==
    /\ planner_calls > 0 => drained = Len(table_data_list)
    /\ planner_calls <= 1
    /\ (all_columns # {} /\ pc \in {"phase2", "phase3", "consolidated", "failed"})
           => planner_calls = 1
    /\ store_rows # <<>> => planner_calls = 1

\* A step that writes rows to the store leaves the target schema as it is and
\* calls no planner
SchemaFixedWhileLoading ==
    (store_rows' # store_rows \/ loaded_tables' # loaded_tables) =>
        /\ pc = "phase3"
        /\ final_order' = final_order
        /\ planner_calls' = planner_calls
        /\ drained' = drained

\* C23: consolidate_data is a run in two passes: the planner is called only when
\* the whole input has been taken, exactly once in a run whose column union is not
\* empty; no row is written to the store before that call, and the target schema
\* does not change while the rows are loaded.
C23_StrictTwoPass == []TwoPassOrder /\ [][SchemaFixedWhileLoading]_vars

\* Two kept tables taken, the planner called, the rows of the first one loaded
C23_Witness ==
    /\ pc = "phase3"
    /\ drained = 2
    /\ Len(table_data_list) = 2
    /\ planner_calls = 1
    /\ loaded_tables = 1
    /\ store_rows # <<>>
    /\ Len(RetainedTables(table_data_list)) = 2

(***************************************************************************)
(* Properties of natural_sort_key (SpecSortKey).                           *)
(***************************************************************************)
\* C14: comparing the natural_sort_key results of two column names never fails:
\* the outcome is less, equal or greater for every pair of names.
C14_KeyComparisonNeverFails ==
    pc = "compared" => key_order \in {"lt", "eq", "gt"}

====
